---- MODULE Spec2Model ----
(***************************************************************************)
(* Model of src/monitor.py: a polling website monitor.  One run of         *)
(* monitor_websites loads the stored state, expands the configured sites   *)
(* into page targets (discover_links), checks each target, builds the      *)
(* notification and saves the new state.  An external scheduler starts     *)
(* the runs one after the other.                                           *)
(*                                                                         *)
(* Strings that the program takes apart (URLs, hrefs, link patterns) are   *)
(* sequences of tokens; "/" is always a token of its own, so that          *)
(* startswith('/'), split('/') and substring tests act as in the source.   *)
(* Other strings (page texts, site names) are TLA+ strings.                *)
(*                                                                         *)
(* Reading of lines 248-262.  Line 248 is indented by six columns and the  *)
(* statements that used to precede it (the test of changes_detected and    *)
(* the first assignment of message) are gone.  The statements are modelled *)
(* as they stand, with the only block structure their relative indentation *)
(* allows: the for statement of line 248 at the level of the function      *)
(* body, lines 249-260 its body, and the else of line 261 the loop's else  *)
(* clause.  message is then a local variable that is read (line 253)       *)
(* before any assignment.                                                  *)
(***************************************************************************)
EXTENDS Integers, Sequences, FiniteSets, TLC

\* ------------------------------------------------------------------ bounds

\* Number of runs the scheduler starts.
MaxRuns == 3
\* Number of anchors on a page handed to discover_links on its own.
MaxHrefs == 4

\* ------------------------------------------------------------ string helpers

None == "None"

Min(a, b) == IF a < b THEN a ELSE b

\* s.startswith(p)
StartsWith(s, p) == Len(s) >= Len(p) /\ SubSeq(s, 1, Len(p)) = p

\* p in s, for strings
Contains(s, p) ==
    \E i \in 1..(Len(s) + 1) :
        i + Len(p) - 1 <= Len(s) /\ SubSeq(s, i, i + Len(p) - 1) = p

\* x in xs, for lists
InList(x, xs) == \E i \in 1..Len(xs) : xs[i] = x

\* s.split('/')[-1]: what follows the last "/" (all of s when it has none)
LastSegment(s) ==
    LET slashes == {i \in 1..Len(s) : s[i] = "/"}
        last == IF slashes = {} THEN 0
                ELSE CHOOSE i \in slashes : \A j \in slashes : j <= i
    IN SubSeq(s, last + 1, Len(s))

\* ------------------------------------------------------------ configuration

Https == "https:"
Slash == "/"

Url(host, path) == <<Https, Slash, Slash, host>> \o path

\* WEBSITES: the discover-enabled entry and the first static entry.  The two
\* further static entries of the list have the shape of the second one.
WEBSITES ==
    << [url |-> Url("www.liverpoolfc.com",
                    <<Slash, "tickets", Slash, "tickets-availability">>),
        name |-> "Liverpool FC Tickets",
        discover_links |-> TRUE,
        link_pattern |-> <<Slash, "tickets", Slash, "tickets-availability", Slash>>,
        selector |-> None],
       [url |-> Url("www.liverpoolfc.com",
                    <<Slash, "tickets", Slash, "ticket-forwarding">>),
        name |-> "Ticket Forwarding",
        discover_links |-> FALSE,
        link_pattern |-> <<>>,
        selector |-> None] >>

\* ------------------------------------------------------------- environment

\* Page texts a fetch can return.
Texts == {"A", "B"}

\* Text of the element a selector matches, or NoElement.
NoElement == "NoElement"
Elements == {NoElement, "E"}

\* requests.get or raise_for_status raising in get_page_content (network
\* error, timeout, non-2xx, URL without scheme)
FetchError == [ok |-> FALSE, text |-> None, element |-> NoElement]

\* the same in discover_links
DiscoverError == [ok |-> FALSE, hrefs |-> <<>>]

\* hrefs that occur on pages
HrefFoo == <<Slash, "tickets", Slash, "tickets-availability", Slash, "foo-1">>
HrefBar == <<Slash, "tickets", Slash, "tickets-availability", Slash, "bar-2">>
HrefOther == Url("other.com", <<Slash, "x">>)
HrefFooAbs == Url("www.liverpoolfc.com", HrefFoo)
HrefRel == <<"x">> \o HrefBar
HrefNet == <<Slash, Slash, "other.com">> \o HrefFoo
HrefFwd == <<Slash, "tickets", Slash, "ticket-forwarding">>

Hrefs == {HrefFoo, HrefBar, HrefOther, HrefFooAbs, HrefRel, HrefNet, HrefFwd}

\* Anchor lists of the discovery page as the runs see it.
DiscoveryPages ==
    { <<>>,
      <<HrefFwd, HrefFoo>>,
      <<HrefFoo, HrefOther, HrefBar, HrefFoo>>,
      <<HrefRel, HrefFooAbs>> }

\* What a GET of url can produce.
Responses(url) ==
    IF Len(url) = 0 \/ url[1] # Https
    THEN {FetchError}
    ELSE {FetchError} \cup [ok : {TRUE}, text : Texts, element : Elements]

\* What the GET of the discovery page can produce in a run.
DiscoveryResponses ==
    {DiscoverError} \cup [ok : {TRUE}, hrefs : DiscoveryPages]

\* ------------------------------------------------------------ pure functions

\* get_content_hash: SHA-256 of the text; distinct texts have distinct digests.
get_content_hash(content) == <<"sha256", content>>

\* get_page_content failing when the selector matches no element
get_page_content_strict(resp, selector) ==
    IF ~resp.ok THEN None
    ELSE IF selector = None THEN resp.text
    ELSE IF resp.element # NoElement THEN resp.element
    ELSE None

\* get_page_content(url, selector), given what the GET produced
get_page_content(resp, selector) ==
    IF ~resp.ok THEN None
    ELSE IF selector = None THEN resp.text
    ELSE IF resp.element # NoElement THEN resp.element
    ELSE resp.text

\* urljoin(url, href) for an href that starts with "/": a network-path
\* reference ("//host/...") keeps only the scheme of url, an absolute path
\* keeps its scheme and host.
urljoin(url, href) ==
    IF Len(href) >= 3 /\ href[2] = Slash /\ href[3] # Slash
    THEN <<url[1]>> \o href
    ELSE SubSeq(url, 1, 4) \o href

\* lines 141-143
Resolve(url, href) ==
    IF StartsWith(href, <<Slash>>) THEN urljoin(url, href) ELSE href

\* AddLink without the test of line 146 for a link already added
AddLinkNoDedup(links, href, link_pattern) ==
    IF Contains(href, link_pattern) THEN Append(links, href) ELSE links

\* lines 146-147: one pass of the loop body
AddLink(links, href, link_pattern) ==
    IF Contains(href, link_pattern) /\ ~InList(href, links)
    THEN Append(links, href)
    ELSE links

\* lines 135-150: the loop over the anchors, from anchor i on
RECURSIVE LinkLoop(_, _, _, _, _)
LinkLoop(url, link_pattern, hrefs, i, links) ==
    IF i > Len(hrefs) THEN links
    ELSE LinkLoop(url, link_pattern, hrefs, i + 1,
                  AddLink(links, Resolve(url, hrefs[i]), link_pattern))

\* discover_links(url, link_pattern), given what the GET produced: the anchor
\* list of the page, or DiscoverError (lines 151-153)
discover_links(url, link_pattern, resp) ==
    IF ~resp.ok THEN <<>>
    ELSE LinkLoop(url, link_pattern, resp.hrefs, 1, <<>>)

\* [:50] of line 201
NameCap == 50

\* lines 199-203: the target made of a discovered URL
DiscoveredTarget(site, discovered_url) ==
    LET seg == LastSegment(discovered_url)
    IN [url |-> discovered_url,
        name |-> <<site.name, " - ">> \o SubSeq(seg, 1, Min(Len(seg), NameCap)),
        selector |-> site.selector]

\* lines 206-210: the target of a static site
StaticTarget(site) ==
    [url |-> site.url, name |-> <<site.name>>, selector |-> site.selector]

RECURSIVE DiscoveredTargets(_, _, _)
DiscoveredTargets(site, discovered_urls, i) ==
    IF i > Len(discovered_urls) THEN <<>>
    ELSE <<DiscoveredTarget(site, discovered_urls[i])>>
         \o DiscoveredTargets(site, discovered_urls, i + 1)

\* ------------------------------------------------------------------- state

VARIABLES
    store,             \* contents of DATA_FILE: URL -> record
    run,               \* number of runs started
    pc,                \* "idle", "expand", "check", "save", "done", "crashed"
    previous_data,     \* monitor_websites: locals
    current_data,
    changes_detected,
    urls_to_check,
    si,                \* position of the loop of line 192 in WEBSITES
    ti,                \* position of the loop of line 215 in urls_to_check
    fetch_log,         \* value of content (line 222) for each target checked
    disc_failed,       \* sites whose discover_links call failed in this run
    notifications,     \* calls of send_discord_notification in this run
    writes,            \* calls of save_data in this run
    prev_urls,         \* urls_to_check of the run before
    prev_log,          \* fetch_log of the run before
    written_from,      \* URL -> the content each record of the file was made of
    websites,          \* the list WEBSITES the runs are configured with
    seen_log,          \* for each target checked: the page text received, and
                       \* whether its selector matched no element (line 115)
    last_done,         \* number of the last run that returned from line 265
    dl_pc,             \* discover_links on its own: "call", "returned"
    dl_url,
    dl_pattern,
    dl_resp,
    dl_links,
    ts_pc,             \* clean_match_title_from_slug on its own: "call", "returned"
    ts_in,             \* the pieces the slug is made of
    ts_slug,
    ts_out

runVars == <<store, run, pc, previous_data, current_data, changes_detected,
             urls_to_check, si, ti, fetch_log, disc_failed, notifications,
             writes, prev_urls, prev_log, written_from, websites, seen_log,
             last_done>>
dlVars == <<dl_pc, dl_url, dl_pattern, dl_resp, dl_links>>
tsVars == <<ts_pc, ts_in, ts_slug, ts_out>>
vars == <<runVars, dlVars, tsVars>>

EmptyMap == [u \in {} |-> None]

\* datetime.now().isoformat(): the time of the check of target ti in this run
Now == <<run, ti>>

InitRun ==
    /\ store = EmptyMap
    /\ run = 0
    /\ pc = "idle"
    /\ previous_data = EmptyMap
    /\ current_data = EmptyMap
    /\ changes_detected = <<>>
    /\ urls_to_check = <<>>
    /\ si = 1
    /\ ti = 1
    /\ fetch_log = <<>>
    /\ disc_failed = {}
    /\ notifications = 0
    /\ writes = 0
    /\ prev_urls = <<>>
    /\ prev_log = <<>>
    /\ written_from = EmptyMap
    /\ seen_log = <<>>
    /\ last_done = 0

InitDLIdle ==
    /\ dl_pc = "idle"
    /\ dl_url = <<>>
    /\ dl_pattern = <<>>
    /\ dl_resp = DiscoverError
    /\ dl_links = <<>>

NoPieces ==
    [wrap |-> FALSE, teams |-> <<>>, day |-> <<>>, mon |-> <<>>, year |-> <<>>,
     time |-> <<>>, id |-> <<>>]

InitTSIdle ==
    /\ ts_pc = "idle"
    /\ ts_in = NoPieces
    /\ ts_slug = <<>>
    /\ ts_out = <<>>

Init == InitRun /\ websites = WEBSITES /\ InitDLIdle /\ InitTSIdle

\* ----------------------------------------------------------------- actions

\* load_previous_data: the file's contents, {} when there is no file
load_previous_data == store

\* lines 183-190: a run starts
LoadPreviousData ==
    /\ pc \in {"idle", "done", "crashed"}
    /\ run < MaxRuns
    /\ run' = run + 1
    /\ previous_data' = load_previous_data
    /\ current_data' = EmptyMap
    /\ changes_detected' = <<>>
    /\ urls_to_check' = <<>>
    /\ si' = 1
    /\ ti' = 1
    /\ fetch_log' = <<>>
    /\ disc_failed' = {}
    /\ notifications' = 0
    /\ writes' = 0
    /\ prev_urls' = urls_to_check
    /\ prev_log' = fetch_log
    /\ seen_log' = <<>>
    /\ pc' = "expand"
    /\ UNCHANGED <<store, written_from, dlVars, tsVars, websites, last_done>>

AfterSite == IF si = Len(websites) THEN "check" ELSE "expand"

\* lines 192-203: a discover-enabled site
ExpandDiscover ==
    /\ pc = "expand"
    /\ websites[si].discover_links
    /\ \E resp \in DiscoveryResponses :
          LET site == websites[si]
              discovered_urls == discover_links(site.url, site.link_pattern, resp)
          IN /\ urls_to_check' =
                    urls_to_check \o DiscoveredTargets(site, discovered_urls, 1)
             /\ disc_failed' =
                    IF ~resp.ok THEN disc_failed \cup {si} ELSE disc_failed
    /\ si' = si + 1
    /\ pc' = AfterSite
    /\ UNCHANGED <<store, run, previous_data, current_data, changes_detected, ti,
                   fetch_log, notifications, writes, prev_urls, prev_log, written_from, dlVars, tsVars, websites, seen_log, last_done>>

\* lines 204-210: a static site
ExpandStatic ==
    /\ pc = "expand"
    /\ ~websites[si].discover_links
    /\ urls_to_check' = Append(urls_to_check, StaticTarget(websites[si]))
    /\ si' = si + 1
    /\ pc' = AfterSite
    /\ UNCHANGED <<store, run, previous_data, current_data, changes_detected, ti,
                   fetch_log, disc_failed, notifications, writes, prev_urls,
                   prev_log, written_from, dlVars, tsVars, websites, seen_log, last_done>>

\* Record with the hash taken of the selector instead of the content
RecordHashOfSelector(site, current_hash) ==
    [name |-> site.name, hash |-> get_content_hash(site.selector),
     last_checked |-> Now, selector |-> site.selector]

\* lines 226-232
Record(site, current_hash) ==
    [name |-> site.name, hash |-> current_hash, last_checked |-> Now,
     selector |-> site.selector]

\* line 240: previous_data[url].get('last_checked', 'Unknown')
PreviousCheck(rec) ==
    IF "last_checked" \in DOMAIN rec THEN rec.last_checked ELSE <<"Unknown">>

\* IsChange without the comparison of line 236
IsChangeNoHash(url, current_hash) == url \in DOMAIN previous_data

\* lines 234-246
IsChange(url, current_hash) ==
    url \in DOMAIN previous_data /\ previous_data[url].hash # current_hash

\* ChangeEvent with the time of the current check as previous_check
ChangeEventNow(site) ==
    [name |-> site.name, url |-> site.url, previous_check |-> Now]

\* lines 237-241
ChangeEvent(site) ==
    [name |-> site.name, url |-> site.url,
     previous_check |-> PreviousCheck(previous_data[site.url])]

\* Skipped without the test of line 223
SkippedNever(content) == FALSE

\* what get_page_content received: the text of the page (None when the GET
\* failed) and whether line 109 looked for the selector and found no element
Seen(resp, selector) ==
    [text |-> IF resp.ok THEN resp.text ELSE None,
     missed |-> resp.ok /\ selector # None /\ resp.element = NoElement]

\* lines 223-224: the target is skipped
Skipped(content) == content = None

\* lines 215-246: one target, but for the file, which the loop leaves alone
CheckBody ==
    /\ pc = "check"
    /\ ti <= Len(urls_to_check)
    /\ LET site == urls_to_check[ti]
       IN \E resp \in Responses(site.url) :
            LET content == get_page_content(resp, site.selector)
                current_hash == get_content_hash(content)
            IN /\ fetch_log' = Append(fetch_log, content)
               /\ seen_log' = Append(seen_log, Seen(resp, site.selector))
               /\ IF Skipped(content)
                  THEN UNCHANGED <<current_data, changes_detected>>
                  ELSE /\ current_data' =
                            [u \in DOMAIN current_data \cup {site.url} |->
                                IF u = site.url THEN Record(site, current_hash)
                                ELSE current_data[u]]
                       /\ changes_detected' =
                            IF IsChange(site.url, current_hash)
                            THEN Append(changes_detected, ChangeEvent(site))
                            ELSE changes_detected
    /\ ti' = ti + 1
    /\ UNCHANGED <<run, pc, previous_data, urls_to_check, si, disc_failed,
                   notifications, writes, prev_urls, prev_log, written_from,
                   dlVars, tsVars, websites, last_done>>

\* CheckTarget saving the new state after every target
CheckTargetSaving == CheckBody /\ store' = current_data'

CheckTarget == CheckBody /\ UNCHANGED store

\* lines 248, 261-262: no change, the loop of line 248 has nothing to do and
\* its else clause runs
NotifyNoChanges ==
    /\ pc = "check"
    /\ ti > Len(urls_to_check)
    /\ changes_detected = <<>>
    /\ pc' = "save"
    /\ UNCHANGED <<store, run, previous_data, current_data, changes_detected,
                   urls_to_check, si, ti, fetch_log, disc_failed, notifications,
                   writes, prev_urls, prev_log, written_from, dlVars, tsVars, websites, seen_log, last_done>>

\* lines 248-253: with a change, line 253 reads message, which was never
\* assigned: UnboundLocalError leaves monitor_websites before line 259 and
\* before line 265
NotifyUnbound ==
    /\ pc = "check"
    /\ ti > Len(urls_to_check)
    /\ changes_detected # <<>>
    /\ pc' = "crashed"
    /\ UNCHANGED <<store, run, previous_data, current_data, changes_detected,
                   urls_to_check, si, ti, fetch_log, disc_failed, notifications,
                   writes, prev_urls, prev_log, written_from, dlVars, tsVars, websites, seen_log, last_done>>

\* save_data keeping the records of the file that data does not replace
save_data_merged(data) ==
    [u \in DOMAIN store \cup DOMAIN data |->
        IF u \in DOMAIN data THEN data[u] ELSE store[u]]

\* lines 89-92: the file is overwritten with data
save_data(data) == data

\* lines 264-265
SaveData ==
    /\ pc = "save"
    /\ store' = save_data(current_data)
    /\ writes' = writes + 1
    /\ written_from' =
          [u \in DOMAIN current_data |->
              fetch_log[CHOOSE i \in 1..Len(urls_to_check) :
                            urls_to_check[i].url = u /\ fetch_log[i] # None]]
    /\ last_done' = run
    /\ pc' = "done"
    /\ UNCHANGED <<run, previous_data, current_data, changes_detected,
                   urls_to_check, si, ti, fetch_log, disc_failed, notifications,
                   prev_urls, prev_log, dlVars, tsVars, websites, seen_log>>

Next ==
    \/ LoadPreviousData
    \/ ExpandDiscover
    \/ ExpandStatic
    \/ CheckTarget
    \/ NotifyNoChanges
    \/ NotifyUnbound
    \/ SaveData

Spec == Init /\ [][Next]_vars

\* ------------------------------------- runs under another configuration

\* WEBSITES with a selector in the static entry (site.get('selector'))
WebsitesWithSelector ==
    [k \in 1..Len(WEBSITES) |->
        IF WEBSITES[k].discover_links THEN WEBSITES[k]
        ELSE [WEBSITES[k] EXCEPT !.selector = "#content"]]

\* A DATA_FILE whose record of the static page has no last_checked key, the
\* case line 240 provides for
LegacyStore ==
    [u \in {WEBSITES[2].url} |->
        [name |-> <<WEBSITES[2].name>>, hash |-> get_content_hash("A"),
         selector |-> None]]

InitAlt ==
    /\ store = LegacyStore
    /\ run = 0
    /\ pc = "idle"
    /\ previous_data = EmptyMap
    /\ current_data = EmptyMap
    /\ changes_detected = <<>>
    /\ urls_to_check = <<>>
    /\ si = 1
    /\ ti = 1
    /\ fetch_log = <<>>
    /\ disc_failed = {}
    /\ notifications = 0
    /\ writes = 0
    /\ prev_urls = <<>>
    /\ prev_log = <<>>
    /\ written_from = [u \in DOMAIN LegacyStore |-> "A"]
    /\ seen_log = <<>>
    /\ last_done = 0
    /\ websites = WebsitesWithSelector
    /\ InitDLIdle
    /\ InitTSIdle

SpecAlt == InitAlt /\ [][Next]_vars

\* --------------------------------------------- discover_links on its own

BoundedSeqs(S, n) == UNION {[1..k -> S] : k \in 0..n}

\* link patterns: the configured one, the default '' of line 196, and others
Patterns ==
    { WEBSITES[1].link_pattern, <<>>, <<Slash, "tickets", Slash>>, <<"foo-1">> }

PageUrls ==
    { WEBSITES[1].url, Url("legacy.liverpoolfc.com", <<Slash, "tickets">>) }

InitDL ==
    /\ InitRun
    /\ websites = WEBSITES
    /\ dl_pc = "call"
    /\ dl_url \in PageUrls
    /\ dl_pattern \in Patterns
    /\ dl_resp \in {DiscoverError} \cup [ok : {TRUE}, hrefs : BoundedSeqs(Hrefs, MaxHrefs)]
    /\ dl_links = <<>>
    /\ InitTSIdle

\* lines 125-153: one call
DiscoverLinks ==
    /\ dl_pc = "call"
    /\ dl_links' = discover_links(dl_url, dl_pattern, dl_resp)
    /\ dl_pc' = "returned"
    /\ UNCHANGED <<runVars, dl_url, dl_pattern, dl_resp, tsVars>>

NextDL == DiscoverLinks

SpecDL == InitDL /\ [][NextDL]_vars

\* ------------------------------------------ clean_match_title_from_slug

\* Here a string is the sequence of its characters.
LowerLetters == <<"a", "b", "c", "d", "e", "f", "g", "h", "i", "j", "k", "l", "m", "n", "o", "p", "q", "r", "s", "t", "u", "v", "w", "x", "y", "z">>
UpperLetters == <<"A", "B", "C", "D", "E", "F", "G", "H", "I", "J", "K", "L", "M", "N", "O", "P", "Q", "R", "S", "T", "U", "V", "W", "X", "Y", "Z">>
Digits == {"0", "1", "2", "3", "4", "5", "6", "7", "8", "9"}
DigitChars == <<"0", "1", "2", "3", "4", "5", "6", "7", "8", "9">>

Range(f) == {f[i] : i \in DOMAIN f}
IndexOf(c, cs) == CHOOSE i \in 1..Len(cs) : cs[i] = c

IsLowerChar(c) == c \in Range(LowerLetters)
IsUpperChar(c) == c \in Range(UpperLetters)
IsAlpha(c) == IsLowerChar(c) \/ IsUpperChar(c)
\* \w of the re module
IsWordChar(c) == IsAlpha(c) \/ c \in Digits \/ c = "_"

ToLower(c) == IF IsUpperChar(c) THEN LowerLetters[IndexOf(c, UpperLetters)] ELSE c
ToUpper(c) == IF IsLowerChar(c) THEN UpperLetters[IndexOf(c, LowerLetters)] ELSE c

\* str.lower
LowerStr(s) == [i \in 1..Len(s) |-> ToLower(s[i])]

\* str.title: a letter is upper-cased unless a letter precedes it
TitleStr(s) ==
    [i \in 1..Len(s) |->
        IF ~IsAlpha(s[i]) THEN s[i]
        ELSE IF i > 1 /\ IsAlpha(s[i - 1]) THEN ToLower(s[i])
        ELSE ToUpper(s[i])]

\* str.isdigit
IsDigitStr(s) == Len(s) > 0 /\ \A i \in 1..Len(s) : s[i] \in Digits

\* str.strip("/")
RECURSIVE StripSlashes(_)
StripSlashes(s) ==
    IF Len(s) > 0 /\ s[1] = Slash THEN StripSlashes(Tail(s))
    ELSE IF Len(s) > 0 /\ s[Len(s)] = Slash THEN StripSlashes(SubSeq(s, 1, Len(s) - 1))
    ELSE s

\* str.lstrip("0")
RECURSIVE LStripZeros(_)
LStripZeros(s) ==
    IF Len(s) > 0 /\ s[1] = "0" THEN LStripZeros(Tail(s)) ELSE s

\* str.split(c)
RECURSIVE SplitOn(_, _)
SplitOn(s, c) ==
    LET hits == {i \in 1..Len(s) : s[i] = c}
    IN IF hits = {} THEN <<s>>
       ELSE LET first == CHOOSE i \in hits : \A j \in hits : i <= j
            IN <<SubSeq(s, 1, first - 1)>> \o SplitOn(SubSeq(s, first + 1, Len(s)), c)

\* sep.join(parts)
RECURSIVE JoinWith(_, _)
JoinWith(parts, sep) ==
    IF Len(parts) = 0 THEN <<>>
    ELSE IF Len(parts) = 1 THEN parts[1]
    ELSE parts[1] \o sep \o JoinWith(Tail(parts), sep)

\* str.replace(old, new), old not empty
RECURSIVE ReplaceAll(_, _, _)
ReplaceAll(s, old, new) ==
    IF Len(s) < Len(old) THEN s
    ELSE IF SubSeq(s, 1, Len(old)) = old
         THEN new \o ReplaceAll(SubSeq(s, Len(old) + 1, Len(s)), old, new)
         ELSE <<s[1]>> \o ReplaceAll(Tail(s), old, new)

\* line 18: re.sub(r"-\d+$", "", slug)
StripTrailingId(s) ==
    LET hits == {i \in 1..Len(s) :
                    s[i] = "-" /\ IsDigitStr(SubSeq(s, i + 1, Len(s)))}
    IN IF hits = {} THEN s
       ELSE SubSeq(s, 1, (CHOOSE i \in hits : \A j \in hits : i <= j) - 1)

\* line 23
month_set == {<<"j", "a", "n">>,
              <<"f", "e", "b">>,
              <<"m", "a", "r">>,
              <<"a", "p", "r">>,
              <<"m", "a", "y">>,
              <<"j", "u", "n">>,
              <<"j", "u", "l">>,
              <<"a", "u", "g">>,
              <<"s", "e", "p">>,
              <<"o", "c", "t">>,
              <<"n", "o", "v">>,
              <<"d", "e", "c">>}

\* line 26
IsDateAt(parts, i) ==
    /\ IsDigitStr(parts[i])
    /\ LowerStr(parts[i + 1]) \in month_set
    /\ IsDigitStr(parts[i + 2])
    /\ Len(parts[i + 2]) = 4

\* lines 24-28: the first position of a date, as a position from 1; 0 for None
DateIdx(parts) ==
    LET hits == {i \in 1..(Len(parts) - 2) : IsDateAt(parts, i)}
    IN IF hits = {} THEN 0 ELSE CHOOSE i \in hits : \A j \in hits : i <= j

Liverpool == <<"l", "i", "v", "e", "r", "p", "o", "o", "l">>
Fc == <<"f", "c">>
Lfc == <<"L", "F", "C">>

\* number of blanks of s from position i on
RECURSIVE BlanksAt(_, _)
BlanksAt(s, i) ==
    IF i <= Len(s) /\ s[i] = " " THEN 1 + BlanksAt(s, i + 1) ELSE 0

\* \bliverpool\s+fc\b matched at the head of s, ignoring case, with before the
\* character that precedes s ("" at the start): the length matched, else 0
LfcMatch(s, before) ==
    LET n == BlanksAt(s, Len(Liverpool) + 1)
        end == Len(Liverpool) + n + Len(Fc)
    IN IF /\ ~IsWordChar(before)
          /\ Len(s) >= Len(Liverpool)
          /\ LowerStr(SubSeq(s, 1, Len(Liverpool))) = Liverpool
          /\ n >= 1
          /\ Len(s) >= end
          /\ LowerStr(SubSeq(s, Len(Liverpool) + n + 1, end)) = Fc
          /\ (Len(s) = end \/ ~IsWordChar(s[end + 1]))
       THEN end ELSE 0

\* line 40: re.sub(r"\bliverpool\s+fc\b", "LFC", s, flags=re.IGNORECASE)
RECURSIVE SubLfc(_, _)
SubLfc(s, before) ==
    IF Len(s) = 0 THEN s
    ELSE LET n == LfcMatch(s, before)
         IN IF n > 0
            THEN Lfc \o SubLfc(SubSeq(s, n + 1, Len(s)), s[n])
            ELSE <<s[1]>> \o SubLfc(Tail(s), s[1])

\* lines 38-41
TeamsStr(teams_part) ==
    LET joined == JoinWith(teams_part, <<" ">>)
        vs == ReplaceAll(ReplaceAll(joined, <<" ", "v", " ">>, <<" ", "v", "s", " ">>),
                         <<" ", "V", " ">>, <<" ", "v", "s", " ">>)
        lfc == SubLfc(vs, "")
    IN ReplaceAll(TitleStr(lfc), <<"L", "f", "c">>, Lfc)

\* line 44: re.match(r"^(\d{2})(\d{2})(am|pm)$", cleaned_time)
TimeMatches(t) ==
    /\ Len(t) = 6
    /\ IsDigitStr(SubSeq(t, 1, 4))
    /\ SubSeq(t, 5, 6) \in {<<"a", "m">>, <<"p", "m">>}

\* int of a string of two digits
IntOf(dd) == 10 * (IndexOf(dd[1], DigitChars) - 1) + (IndexOf(dd[2], DigitChars) - 1)

\* str of an int below 100
StrOf(n) ==
    IF n < 10 THEN <<DigitChars[n + 1]>>
    ELSE <<DigitChars[(n \div 10) + 1], DigitChars[(n % 10) + 1]>>

\* FormatTime without the case of hour 0 of line 49
FormatTimeNoTwelve(t) ==
    LStripZeros(StrOf(IntOf(SubSeq(t, 1, 2))) \o <<":">> \o SubSeq(t, 3, 4)
                \o SubSeq(t, 5, 6))

\* lines 46-50
FormatTime(t) ==
    LET hh == IntOf(SubSeq(t, 1, 2))
        mm == SubSeq(t, 3, 4)
        ampm == SubSeq(t, 5, 6)
    IN LStripZeros(IF hh # 0 THEN StrOf(hh) \o <<":">> \o mm \o ampm
                   ELSE <<"1", "2", ":">> \o mm \o ampm)

\* CleanedTime dropping a token that line 44 does not match
CleanedTimeOmitting(time_part) ==
    IF TimeMatches(LowerStr(time_part)) THEN FormatTime(LowerStr(time_part)) ELSE <<>>

\* lines 43-50
CleanedTime(time_part) ==
    LET cleaned_time == LowerStr(time_part)
    IN IF TimeMatches(cleaned_time) THEN FormatTime(cleaned_time) ELSE cleaned_time

\* the separator of lines 54-55, blanks included; the characters between the
\* blanks are one element
Sep == <<" ", "DASH", " ">>

\* lines 15-20
SlugParts(slug) ==
    SplitOn(StripTrailingId(
                LET segs == SplitOn(StripSlashes(slug), Slash) IN segs[Len(segs)]),
            "-")

\* lines 9-55
clean_match_title_from_slug(slug) ==
    LET parts == SlugParts(slug)
        date_idx == DateIdx(parts)
    IN IF date_idx = 0
       THEN TitleStr(ReplaceAll(JoinWith(parts, <<"-">>), <<"-">>, <<" ">>))
       ELSE LET teams_part == SubSeq(parts, 1, date_idx - 1)
                day == parts[date_idx]
                mon == TitleStr(parts[date_idx + 1])
                time_part == IF Len(parts) > date_idx + 2
                             THEN parts[date_idx + 3] ELSE <<>>
                cleaned_time == CleanedTime(time_part)
                date_str == day \o <<" ">> \o mon
            IN IF cleaned_time # <<>>
               THEN TeamsStr(teams_part) \o Sep \o date_str \o Sep \o cleaned_time
               ELSE TeamsStr(teams_part) \o Sep \o date_str

\* slugs: teams, day, month, year, time token and id, joined by "-", alone or
\* as the last segment of a path
TeamPieces ==
    {<<>>,
     <<"m", "a", "r", "s", "e", "i", "l", "l", "e", "-", "v", "-", "l", "i", "v", "e", "r", "p", "o", "o", "l", "-", "f", "c">>,
     <<"a", "-", "V", "-", "b">>,
     <<"l", "i", "v", "e", "r", "p", "o", "o", "l", "-", "f", "c">>,
     <<"x", "-", "v">>}
DayPieces == {<<"2", "1">>, <<"1">>}
MonPieces == {<<"j", "a", "n">>, <<"J", "A", "N">>, <<"d", "e", "c">>, <<"x", "y", "z">>}
YearPieces == {<<"2", "0", "2", "6">>, <<"2", "6">>}
TimePieces ==
    {<<>>, <<"0", "8", "0", "0", "p", "m">>, <<"0", "0", "0", "0", "a", "m">>, <<"1", "2", "3", "0", "P", "M">>, <<"0", "9", "0", "5", "a", "m">>, <<"1", "3", "0", "0", "p", "m">>,
     <<"8", "p", "m">>, <<"t", "b", "c">>, <<"2", "0", "0", "0">>, <<"0", "8", "0", "0", "x", "m">>}
IdPieces == {<<>>, <<"5", "2", "4">>}

RECURSIVE NonEmpty(_)
NonEmpty(parts) ==
    IF Len(parts) = 0 THEN <<>>
    ELSE IF parts[1] = <<>> THEN NonEmpty(Tail(parts))
    ELSE <<parts[1]>> \o NonEmpty(Tail(parts))

BuildSlug(in) ==
    LET body == JoinWith(NonEmpty(<<in.teams, in.day, in.mon, in.year, in.time, in.id>>),
                         <<"-">>)
    IN IF in.wrap THEN <<Slash, "t", Slash>> \o body \o <<Slash>> ELSE body

InitTS ==
    /\ InitRun
    /\ websites = WEBSITES
    /\ InitDLIdle
    /\ ts_pc = "call"
    /\ ts_in \in [wrap : BOOLEAN, teams : TeamPieces, day : DayPieces,
                  mon : MonPieces, year : YearPieces, time : TimePieces,
                  id : IdPieces]
    /\ ts_slug = BuildSlug(ts_in)
    /\ ts_out = <<>>

\* lines 9-55: one call
CleanMatchTitle ==
    /\ ts_pc = "call"
    /\ ts_out' = clean_match_title_from_slug(ts_slug)
    /\ ts_pc' = "returned"
    /\ UNCHANGED <<runVars, dlVars, ts_in, ts_slug>>

NextTS == CleanMatchTitle

SpecTS == InitTS /\ [][NextTS]_vars

\* ------------------------------------------------------------------ claims

\* URLs of the targets of this run
TargetUrls == {urls_to_check[i].url : i \in 1..Len(urls_to_check)}

\* targets whose check has been made in this run
Checked == 1..Len(fetch_log)

\* URLs for which this run has a ChangeEvent
EventUrls == {changes_detected[k].url : k \in 1..Len(changes_detected)}

\* the run has ended, by returning or by an uncaught exception
RunOver == pc \in {"done", "crashed"}

\* C1: a checked target has a ChangeEvent exactly when its fetch succeeded, its
\* URL is a key of the state loaded at the start of the run and the stored
\* hash differs from the hash of the content fetched in this run; a URL that
\* the loaded state does not have never has a ChangeEvent.
C1_ChangeEventIff ==
    /\ \A i \in Checked :
          LET url == urls_to_check[i].url
          IN url \in EventUrls <=>
                /\ fetch_log[i] # None
                /\ url \in DOMAIN previous_data
                /\ previous_data[url].hash # get_content_hash(fetch_log[i])
    /\ EventUrls \subseteq DOMAIN previous_data
    /\ EventUrls \subseteq {urls_to_check[i].url : i \in Checked}
    /\ Len(changes_detected) = Cardinality(EventUrls)

\* C1 witness: in one run a changed page has its event and a page seen for
\* the first time, fetched successfully, has none.
C1_Witness ==
    /\ pc = "check"
    /\ changes_detected # <<>>
    /\ \E i \in Checked :
          /\ fetch_log[i] # None
          /\ urls_to_check[i].url \notin DOMAIN previous_data
    /\ \E i \in Checked :
          /\ fetch_log[i] # None
          /\ urls_to_check[i].url \in DOMAIN previous_data
          /\ urls_to_check[i].url \notin EventUrls

\* C2: the state a run persists has as keys exactly the URLs of the targets
\* fetched successfully in that run; nothing of the prior state is merged in.
C2_PersistedReplaces ==
    pc = "done" =>
        /\ DOMAIN store =
              {urls_to_check[i].url : i \in {j \in Checked : fetch_log[j] # None}}
        /\ \A u \in DOMAIN previous_data :
              u \notin TargetUrls => u \notin DOMAIN store

\* C2 witness: a run has persisted its state, and a URL of the prior state
\* that is not among the run's targets is gone.
C2_Witness ==
    /\ pc = "done"
    /\ store # previous_data
    /\ \E u \in DOMAIN previous_data : u \notin TargetUrls /\ u \notin DOMAIN store

\* C4: a target whose fetch failed has no record in the new state and no
\* ChangeEvent in this run, and the pass goes on: the loop stands at the next
\* target, and once the loop is left every target has been checked.
C4_FailedFetchSkipped ==
    /\ \A i \in Checked :
          fetch_log[i] = None =>
              /\ urls_to_check[i].url \notin DOMAIN current_data
              /\ urls_to_check[i].url \notin EventUrls
    /\ pc = "check" => ti = Len(fetch_log) + 1 /\ ti <= Len(urls_to_check) + 1
    /\ pc \in {"save", "done", "crashed"} => Len(fetch_log) = Len(urls_to_check)

\* C4 witness: a fetch failed and a later target was checked and recorded.
C4_Witness ==
    \E i, j \in Checked :
        /\ i < j
        /\ fetch_log[i] = None
        /\ urls_to_check[i].url \in DOMAIN previous_data
        /\ fetch_log[j] # None
        /\ urls_to_check[j].url \in DOMAIN current_data

\* C3: when a run has the target list of the run before it and every fetch
\* succeeds in both with the same content, the second run has no ChangeEvent
\* and leaves the persisted hash of every URL as the first run left it (the
\* state the first run left is the state the second run loaded).
C3_SecondRunQuiet ==
    ( /\ RunOver
      /\ run >= 2
      /\ urls_to_check = prev_urls
      /\ fetch_log = prev_log
      /\ \A i \in Checked : fetch_log[i] # None )
    => /\ changes_detected = <<>>
       /\ \A u \in TargetUrls :
             /\ u \in DOMAIN store
             /\ u \in DOMAIN previous_data
             /\ store[u].hash = previous_data[u].hash

\* C5: every run, once all its targets are processed, executes save_data.
C5_EveryRunSaves == RunOver => writes = 1

\* C6: a run sends one notification when it has at least one ChangeEvent and
\* none when it has no ChangeEvent.
C6_OneNotification ==
    RunOver => notifications = IF changes_detected = <<>> THEN 0 ELSE 1

\* what C7 asks of every state
C7_State ==
    /\ writes <= 1
    /\ pc \in {"expand", "check", "save"} => previous_data = store /\ writes = 0

\* C7: the state loaded at the start of a run is the file's contents and does
\* not change during the run; a ChangeEvent comes of a comparison with the
\* record as loaded; a step that writes a record to the new state map leaves
\* the file alone; the file is written in one step only, after all targets
\* have been processed, and at most once in a run.
C7_LoadedStateFrozen ==
    [][ /\ C7_State /\ C7_State'
        /\ run' = run => previous_data' = previous_data
        /\ run' # run => previous_data' = store /\ store' = store
        /\ store' # store =>
              /\ pc = "save"
              /\ Len(fetch_log) = Len(urls_to_check)
              /\ store' = current_data
        /\ (run' = run /\ current_data' # current_data) => store' = store
        /\ (run' = run /\ changes_detected' # changes_detected) =>
              LET url == urls_to_check[ti].url
              IN /\ url \in DOMAIN store
                 /\ store[url].hash # current_data'[url].hash
                 /\ changes_detected'[Len(changes_detected')].previous_check
                       = store[url].last_checked ]_vars

\* C7 witness: a run that loaded a non-empty state has compared, recorded and
\* written the file once, with other contents than it loaded.
C7_Witness ==
    /\ pc = "done"
    /\ writes = 1
    /\ previous_data # EmptyMap
    /\ store # previous_data
    /\ \E u \in DOMAIN store : u \in DOMAIN previous_data

\* C8 as stated: every persisted record holds a text snapshot and its hash is
\* the fingerprint of that snapshot.
C8_HashOfSnapshot ==
    \A u \in DOMAIN store :
        /\ "snapshot" \in DOMAIN store[u]
        /\ store[u].hash = get_content_hash(store[u].snapshot)

\* C8 amended: every persisted record holds name, hash, last-checked time and
\* selector and no snapshot, and its hash is the fingerprint of the content
\* that was fetched for its URL in the run that wrote the record.
C8_HashOfFetched ==
    /\ DOMAIN written_from = DOMAIN store
    /\ \A u \in DOMAIN store :
          /\ DOMAIN store[u] = {"name", "hash", "last_checked", "selector"}
          /\ written_from[u] \in Texts
          /\ store[u].hash = get_content_hash(written_from[u])
    /\ pc = "done" =>
          \A i \in Checked :
              fetch_log[i] # None =>
                  written_from[urls_to_check[i].url] = fetch_log[i]

\* C8 witness: records written by an earlier run are in the file while a
\* later run has fetched other content.
C8_Witness ==
    /\ pc = "crashed"
    /\ store # EmptyMap
    /\ \E i \in Checked :
          /\ urls_to_check[i].url \in DOMAIN store
          /\ fetch_log[i] # None
          /\ fetch_log[i] # written_from[urls_to_check[i].url]

\* href as line 146 sees it, for the page dl_url
C9_Abs(href) ==
    IF Len(href) > 0 /\ href[1] = Slash THEN urljoin(dl_url, href) ELSE href

\* position on the page of the first anchor whose href resolves to v
C9_First(v) ==
    LET page == dl_resp.hrefs
    IN CHOOSE j \in 1..Len(page) :
          C9_Abs(page[j]) = v /\ \A k \in 1..(j - 1) : C9_Abs(page[k]) # v

\* C9: of a page's hrefs discover_links returns those whose resolved form
\* contains the pattern, each once, an href that begins with "/" in its form
\* resolved against the page URL, in the order of first occurrence.
C9_DiscoverLinks ==
    (dl_pc = "returned" /\ dl_resp.ok) =>
        LET page == dl_resp.hrefs
        IN /\ \A k \in 1..Len(dl_links) :
                 /\ Contains(dl_links[k], dl_pattern)
                 /\ \E j \in 1..Len(page) : dl_links[k] = C9_Abs(page[j])
                 /\ dl_links[k][1] # Slash
           /\ \A k, l \in 1..Len(dl_links) :
                 k < l => /\ dl_links[k] # dl_links[l]
                          /\ C9_First(dl_links[k]) < C9_First(dl_links[l])
           /\ \A j \in 1..Len(page) :
                 /\ Contains(C9_Abs(page[j]), dl_pattern) <=> InList(C9_Abs(page[j]), dl_links)
                 /\ page[j][1] = Slash =>
                       /\ ~InList(page[j], dl_links)
                       /\ SubSeq(C9_Abs(page[j]), 1, 3) = SubSeq(dl_url, 1, 3)

\* C9 witness: a call returned two links or more from a page where an href
\* beginning with "/" occurs twice and another href does not match.
C9_Witness ==
    /\ dl_pc = "returned"
    /\ dl_resp.ok
    /\ Len(dl_links) >= 2
    /\ \E j, k \in 1..Len(dl_resp.hrefs) :
          /\ j < k
          /\ dl_resp.hrefs[j] = dl_resp.hrefs[k]
          /\ dl_resp.hrefs[j][1] = Slash
          /\ InList(C9_Abs(dl_resp.hrefs[j]), dl_links)
    /\ \E j \in 1..Len(dl_resp.hrefs) : ~InList(C9_Abs(dl_resp.hrefs[j]), dl_links)

\* C10: when the discovery of a site failed, the site has no target in the
\* run, every other site has its target and the target is checked, and the
\* run persists its state.
C10_DiscoveryFailureTolerated ==
    (RunOver /\ disc_failed # {}) =>
        /\ \A i \in 1..Len(urls_to_check) :
              \E k \in 1..Len(WEBSITES) :
                  k \notin disc_failed /\ urls_to_check[i] = StaticTarget(WEBSITES[k])
        /\ \A k \in 1..Len(WEBSITES) :
              k \notin disc_failed =>
                  \E i \in Checked : urls_to_check[i] = StaticTarget(WEBSITES[k])
        /\ writes = 1

\* the call of clean_match_title_from_slug has returned and line 26 found a date
TS_DateFound == ts_pc = "returned" /\ DateIdx(SlugParts(ts_slug)) # 0

\* the token at date_idx + 3, <<>> when there is none
TS_TimeToken ==
    LET parts == SlugParts(ts_slug)
        d == DateIdx(parts)
    IN IF Len(parts) > d + 2 THEN parts[d + 3] ELSE <<>>

\* the teams segment expected of the teams of the slug
TS_Teams ==
    CASE ts_in.teams = <<>> -> <<>>
      [] ts_in.teams = <<"m", "a", "r", "s", "e", "i", "l", "l", "e", "-", "v", "-", "l", "i", "v", "e", "r", "p", "o", "o", "l", "-", "f", "c">> ->
            <<"M", "a", "r", "s", "e", "i", "l", "l", "e", " ", "V", "s", " ", "L", "F", "C">>
      [] ts_in.teams = <<"a", "-", "V", "-", "b">> -> <<"A", " ", "V", "s", " ", "B">>
      [] ts_in.teams = <<"l", "i", "v", "e", "r", "p", "o", "o", "l", "-", "f", "c">> -> <<"L", "F", "C">>
      [] ts_in.teams = <<"x", "-", "v">> -> <<"X", " ", "V">>

\* the month expected of the month of the slug
TS_Month ==
    CASE ts_in.mon \in {<<"j", "a", "n">>, <<"J", "A", "N">>} -> <<"J", "a", "n">>
      [] ts_in.mon = <<"d", "e", "c">> -> <<"D", "e", "c">>

\* "{teams} - {day} {Month}"
TS_TeamsAndDate == TS_Teams \o Sep \o ts_in.day \o <<" ">> \o TS_Month

\* C11 as stated: with a date found and the token at date_idx + 3 absent or
\* not of the form of four digits and am or pm, the title is
\* "{teams} - {day} {Month}" and nothing more.
C11_UnmatchedTimeOmitted ==
    (TS_DateFound /\ ~TimeMatches(LowerStr(TS_TimeToken)))
        => ts_out = TS_TeamsAndDate

\* C11 amended: with a date found, the title is "{teams} - {day} {Month}" and
\* nothing more when there is no token at date_idx + 3; when there is one and
\* it is not of the form of four digits and am or pm, the title is
\* "{teams} - {day} {Month} - {token}", the token in lower case.
C11_UnmatchedTimeKept ==
    (TS_DateFound /\ ~TimeMatches(LowerStr(TS_TimeToken)))
        => ts_out = IF TS_TimeToken = <<>> THEN TS_TeamsAndDate
                    ELSE TS_TeamsAndDate \o Sep \o LowerStr(TS_TimeToken)

\* C11 witness: a title was made of a slug with a date and the time token tbc.
C11_Witness ==
    /\ TS_DateFound
    /\ TS_TimeToken = <<"t", "b", "c">>
    /\ ts_in.id # <<>>
    /\ ts_out = TS_TeamsAndDate \o Sep \o <<"t", "b", "c">>

\* the time expected of a token HHMM and am or pm
TS_Time(t) ==
    LET hh == SubSeq(t, 1, 2)
        h == IF hh = <<"0", "0">> THEN <<"1", "2">>
             ELSE IF hh[1] = "0" THEN <<hh[2]>>
             ELSE hh
    IN h \o <<":">> \o SubSeq(t, 3, 4) \o LowerStr(SubSeq(t, 5, 6))

\* C12: with a date found and a time token of four digits and am or pm, the
\* title ends with the time as H:MM and the suffix, H being 12 for hour 00 and
\* else the hour without its leading zero, the minutes unchanged.
C12_TimeRendered ==
    (TS_DateFound /\ TimeMatches(LowerStr(TS_TimeToken)))
        => ts_out = TS_TeamsAndDate \o Sep \o TS_Time(TS_TimeToken)

\* C12 witness: the token 0000am was rendered as 12:00am.
C12_Witness ==
    /\ TS_DateFound
    /\ TS_TimeToken = <<"0", "0", "0", "0", "a", "m">>
    /\ ts_out = TS_TeamsAndDate \o Sep \o <<"1", "2", ":", "0", "0", "a", "m">>

\* C13: a run is one pass: every site is expanded once, the targets are
\* checked once each in the order of the list, and after the last target the
\* run goes through notification and persistence and ends.
C13_SinglePass ==
    /\ pc = "expand" => si <= Len(websites)
    /\ pc \in {"check", "save", "done", "crashed"} => si = Len(websites) + 1
    /\ Len(fetch_log) = ti - 1
    /\ ti <= Len(urls_to_check) + 1
    /\ pc \in {"save", "done", "crashed"} => ti = Len(urls_to_check) + 1
    /\ RunOver => pc = "done" /\ writes = 1

\* C14: when the selector of a target matches no element of the page fetched,
\* get_page_content returns the text of the whole page, the target is not
\* skipped and its record in the new state has the hash of that text.
C14_SelectorMissFallsBack ==
    \A i \in Checked :
        seen_log[i].missed =>
            LET url == urls_to_check[i].url
            IN /\ urls_to_check[i].selector # None
               /\ fetch_log[i] \in Texts
               /\ fetch_log[i] = seen_log[i].text
               /\ url \in DOMAIN current_data
               /\ current_data[url].hash = get_content_hash(seen_log[i].text)

\* C14 witness: a run has persisted the record of a target whose selector
\* matched nothing, with the hash of the page text.
C14_Witness ==
    /\ pc = "done"
    /\ \E i \in Checked :
          /\ seen_log[i].missed
          /\ store[urls_to_check[i].url].hash = get_content_hash(seen_log[i].text)

\* C15: every ChangeEvent has the name and the URL of a target checked in this
\* run and, as previous-check time, the last_checked of the record loaded for
\* that URL, or Unknown when that record has none; it never has the time
\* written for that URL in this run.
C15_ChangeEventFields ==
    \A k \in 1..Len(changes_detected) :
        LET ev == changes_detected[k]
        IN /\ \E i \in Checked :
                 ev.url = urls_to_check[i].url /\ ev.name = urls_to_check[i].name
           /\ ev.url \in DOMAIN previous_data
           /\ IF "last_checked" \in DOMAIN previous_data[ev.url]
              THEN ev.previous_check = previous_data[ev.url].last_checked
              ELSE ev.previous_check = <<"Unknown">>
           /\ ev.url \in DOMAIN current_data
           /\ ev.previous_check # current_data[ev.url].last_checked

\* C15 witness: a ChangeEvent has the time an earlier run wrote.
C15_Witness ==
    \E k \in 1..Len(changes_detected) :
        LET ev == changes_detected[k]
        IN /\ "last_checked" \in DOMAIN previous_data[ev.url]
           /\ ev.previous_check = previous_data[ev.url].last_checked
           /\ ev.previous_check[1] < run

\* C16: a URL whose fetch failed in the run before is not in the state this
\* run loaded, and its successful fetch in this run has no ChangeEvent.  (The
\* claim speaks of the URLs that had a record before the run in which the
\* fetch failed; a URL that had none cannot break this either.)
C16_FailedFetchResetsBaseline ==
    run >= 2 =>
        \A i \in Checked :
            ( /\ fetch_log[i] # None
              /\ \E j \in 1..Len(prev_log) :
                    prev_urls[j].url = urls_to_check[i].url /\ prev_log[j] = None )
            => /\ urls_to_check[i].url \notin DOMAIN previous_data
               /\ urls_to_check[i].url \notin EventUrls

\* C17: every record of the file was written by the last run that completed
\* (returned from line 265): its last-checked time is a time of that run; and
\* the previous-check time of every ChangeEvent is a time of the last run
\* completed before the run of the event.
C17_RecordsOfLastCompletedRun ==
    /\ last_done <= run
    /\ \A u \in DOMAIN store : last_done >= 1 /\ store[u].last_checked[1] = last_done
    /\ \A k \in 1..Len(changes_detected) :
          /\ last_done < run
          /\ changes_detected[k].previous_check[1] = last_done

\* C17 witness: a run that did not complete lies between the run of a
\* ChangeEvent and the run that wrote the record the event refers to.
C17_Witness ==
    /\ changes_detected # <<>>
    /\ last_done >= 1
    /\ last_done < run - 1
    /\ changes_detected[1].previous_check[1] = last_done
    /\ store[changes_detected[1].url].last_checked[1] = last_done

====
